---------------------------- MODULE Spec2Model ----------------------------
(***************************************************************************)
(* Model of the commit-message generator (muhammedsamal/commit).           *)
(*                                                                         *)
(* The repository holds several historical variants of the same program.   *)
(* Three of them carry the generation pipeline and are modelled here:      *)
(*   "multi" : src/src/index.ts + src/unnamed/part_007 (cli-utils)         *)
(*             + src/unnamed/part_008 (CommitGenerator, structured output, *)
(*             quick mode, three-way fan-out with Promise.allSettled)      *)
(*   "delim" : src/unnamed/part_004 (index) + src/src/lib/commit-generator.ts *)
(*             (CommitGenerator, delimited free-text output)               *)
(*   "go"    : src/main.go, second program (lines 140-543)                 *)
(*                                                                         *)
(* Texts are sequences of one-character strings; the delimiters of the     *)
(* free-text protocol are single tokens.                                   *)
(***************************************************************************)
EXTENDS Integers, Sequences, FiniteSets, TLC

\* ------------------------------------------------------------------ bounds
\* Longest raw provider text enumerated in the single-call Go path.
MaxLen == 3

\* -------------------------------------------------------------- constants
Variants == {"multi", "delim", "go"}

\* part_007 line 22 (ProviderType), restricted to two of the four providers.
Providers == {"groq", "google"}

\* part_007 lines 298-303 / part_008 lines 181-186 (envKeyMap).
EnvKeyMap(p) == IF p = "groq" THEN "GROQ_API_KEY" ELSE "GOOGLE_GENERATIVE_AI_API_KEY"

EnvNames == {EnvKeyMap(p) : p \in Providers}

\* commit-generator.ts line 48: the variable the delimited-text program reads.
AnthropicEnv == "ANTHROPIC_API_KEY"

AllEnvNames == EnvNames \cup {AnthropicEnv}

\* main.go lines 164-182.
StyleConventional == "conventional"
StyleSimple == "simple"
StyleDetailed == "detailed"
ActionCommit == "commit"
ActionClipboard == "clipboard"
ClipFormatMessage == "message"
ClipFormatCommand == "command"

Styles == {StyleConventional, StyleSimple, StyleDetailed}
Actions == {ActionCommit, ActionClipboard}
ClipFormats == {ClipFormatMessage, ClipFormatCommand}

\* ------------------------------------------------------------------ texts
Chars == {"a", " ", "\n"}

\* The characters the shell of execSync treats specially in a quoted word.
Backslash == "\\"

DQuote == "\""

IsSpace(c) == c \in {" ", "\n"}

RECURSIVE TrimLeft(_)
TrimLeft(s) ==
  IF s = << >> THEN << >>
  ELSE IF IsSpace(Head(s)) THEN TrimLeft(Tail(s)) ELSE s

RECURSIVE TrimRight(_)
TrimRight(s) ==
  IF s = << >> THEN << >>
  ELSE IF IsSpace(s[Len(s)]) THEN TrimRight(SubSeq(s, 1, Len(s) - 1)) ELSE s

\* strings.TrimSpace (Go) and String.prototype.trim (TS).
TrimSpace(s) == TrimRight(TrimLeft(s))

HasNewline(s) == \E i \in 1..Len(s) : s[i] = "\n"

\* Position of the first occurrence of token t in s, 0 when absent.
RECURSIVE IndexFrom(_, _, _)
IndexFrom(s, t, i) ==
  IF i > Len(s) THEN 0
  ELSE IF s[i] = t THEN i ELSE IndexFrom(s, t, i + 1)

IndexOf(s, t) == IndexFrom(s, t, 1)

\* strings.SplitN(msg, "\n", 2)
SplitN2(msg) ==
  LET k == IndexOf(msg, "\n") IN
    IF k = 0 THEN << msg >>
    ELSE << SubSeq(msg, 1, k - 1), SubSeq(msg, k + 1, Len(msg)) >>

RECURSIVE SeqsUpTo(_)
SeqsUpTo(n) ==
  IF n = 0 THEN { << >> }
  ELSE LET shorter == SeqsUpTo(n - 1) IN
         shorter \cup { Append(s, c) : s \in { t \in shorter : Len(t) = n - 1 }, c \in Chars }

\* Every raw text a provider may answer with, up to the bound.
RawTexts == SeqsUpTo(MaxLen)

\* ------------------------------------------------------------------ state
VARIABLES
  variant,      \* which program of the repository is running
  pc,           \* position of the invocation in its pipeline
  opts,         \* parsed command-line flags (CommitOptions)
  index,        \* staged changes of the repository
  work,         \* unstaged changes of the repository
  env,          \* process.env: credential variable -> value ("" = unset)
  rcFile,       \* ~/.commitrc of the TS programs
  cfg,          \* in-memory Config of the TS programs
  goFile,       \* config.json of the Go program
  gcfg,         \* in-memory Config of the Go program
  diff,         \* the diff collected for the prompt (a set of changes)
  git4,         \* Go: status of the four repository read goroutines
  br,           \* the generation branches (promises / goroutines) 1..3
  saved,        \* multi: originalEnvValue captured by each generateWithAI call
  ollama,       \* the local inference server: is the model there, does it list, pulls made
  responseText, \* the free-text answer of the provider that was parsed
  usedKey,      \* the credential the generation requests are made with ("" = none)
  chan,         \* Go: the buffered results channel
  recvd,        \* Go: results the collector has received
  candidates,   \* GeneratedCommit values produced by generation
  selected,     \* the message chosen for the commit
  commitAdd,    \* the add option handed to commitChanges
  confirmed,    \* whether the user answered the confirmation prompt with yes
  remoteCalls,  \* generation requests issued to a provider
  prompts,      \* interactive prompts issued so far
  stageOps,     \* "git add" executions
  commits,      \* "git commit" executions: parts, index at that time, outcome
  clip,         \* clipboard writes
  exitCode,     \* -1 while running, then the process exit code
  report        \* what the invocation told the user last

vars == << variant, ollama, responseText, pc, opts, index, work, env, rcFile, cfg, goFile, gcfg,
           diff, git4, br, saved, usedKey, chan, recvd, candidates, selected, commitAdd,
           confirmed, remoteCalls, prompts, stageOps, commits, clip, exitCode, report >>

repoVars == << index, work >>
tsCfgVars == << rcFile, cfg >>
goCfgVars == << goFile, gcfg >>
goGenVars == << git4, chan, recvd >>
genVars == << br, saved, usedKey, candidates >>
sideVars == << stageOps, commits, clip >>

NoReport == [stream |-> "none", text |-> "", names |-> "", cause |-> ""]
Info(t) == [stream |-> "info", text |-> t, names |-> "", cause |-> ""]
Err(t) == [stream |-> "error", text |-> t, names |-> "", cause |-> ""]
ErrNaming(t, n) == [stream |-> "error", text |-> t, names |-> n, cause |-> ""]
\* An error that wraps the message of another one: "<text>: <cause>".
ErrWrapping(t, c) == [stream |-> "error", text |-> t, names |-> "", cause |-> c]

IdleBranch == [st |-> "idle", val |-> << >>]
NoBranches == [i \in 1..3 |-> IdleBranch]

\* A configuration file: whether it exists, whether it is bad (unreadable or
\* not JSON), and the fields it holds ("" = the field is not in the file).
NoRc == [exists |-> FALSE, bad |-> FALSE, provider |-> "", model |-> "", apiKey |-> ""]
NoCfg == [provider |-> "", model |-> "", apiKey |-> ""]
NoGoCfg == [style |-> "", action |-> "", clip |-> ""]
NoGoFile == [exists |-> FALSE, bad |-> FALSE, style |-> "", action |-> "", clip |-> ""]

NoFlags == [staged |-> FALSE, interactive |-> FALSE, add |-> FALSE, quick |-> FALSE,
            cloud |-> FALSE, model |-> "",
            setStyle |-> FALSE, setAction |-> FALSE, setClip |-> FALSE]

\* part_007 lines 121-136 (modelChoices), two of the three groq models.
ModelChoices(p) ==
  IF p = "groq" THEN {"llama-4-scout", "llama-3.1-70b"} ELSE {"gemini-2.0-flash"}

\* part_007 lines 39-42 (defaultConfig of loadConfig).
DefaultConfig == [provider |-> "groq", model |-> "llama-4-scout", apiKey |-> ""]

\* index.ts lines 73-80: the four flags of the multi-provider program.
MultiFlags ==
  { [NoFlags EXCEPT !.staged = s, !.interactive = i, !.add = a, !.quick = q] :
      s \in BOOLEAN, i \in BOOLEAN, a \in BOOLEAN, q \in BOOLEAN }

\* part_004 lines 70-76: the flags of the delimited-text program.
DelimFlags ==
  { [NoFlags EXCEPT !.staged = s, !.interactive = i, !.add = a,
                    !.cloud = c, !.model = m] :
      s \in BOOLEAN, i \in BOOLEAN, a \in BOOLEAN, c \in BOOLEAN,
      m \in {"", "m_cli"} }

\* main.go lines 397-402.
GoFlags ==
  { [NoFlags EXCEPT !.staged = s, !.interactive = i, !.add = a,
                    !.setStyle = x, !.setAction = y, !.setClip = z] :
      s \in BOOLEAN, i \in BOOLEAN, a \in BOOLEAN,
      x \in BOOLEAN, y \in BOOLEAN, z \in BOOLEAN }

FirstModel(p) == IF p = "groq" THEN "llama-4-scout" ELSE "gemini-2.0-flash"

\* The config.json files an invocation starts from: none yet, or one that
\* the first-run setup has completed (main.go lines 435-449) and the
\* configuration commands have changed since (lines 408-433).
GoFiles ==
  { NoGoFile } \cup
  { f \in [exists : {TRUE}, bad : {FALSE}, style : Styles, action : Actions,
           clip : ClipFormats \cup {""}] :
      f.action = ActionClipboard => f.clip # "" }

\* A ~/.commitrc a user may have: written by setup, or edited to hold a key.
RcFiles ==
  { NoRc } \cup
  { [exists |-> TRUE, bad |-> FALSE, provider |-> p, model |-> FirstModel(p), apiKey |-> k] :
      p \in Providers, k \in {"", "k_cfg"} }

\* A ~/.commitrc of the delimited-text program (part_006 lines 102-108; the
\* provider field holds its "type"): written by "commit config" for ollama
\* or for anthropic, with or without a key.
DelimRcFiles ==
  { NoRc,
    [exists |-> TRUE, bad |-> FALSE, provider |-> "ollama", model |-> "m_cfg",
     apiKey |-> ""] } \cup
  { [exists |-> TRUE, bad |-> FALSE, provider |-> "anthropic",
     model |-> "claude-3-opus", apiKey |-> k] : k \in {"", "k_cfg"} }

\* The per-invocation part of the state, as a fresh process has it.
\* An Ollama server nobody has asked anything yet.
OllamaServers == [present : BOOLEAN, tagsOk : BOOLEAN, pulls : {0}]

NoOllama == [present |-> FALSE, tagsOk |-> FALSE, pulls |-> 0]

FreshRun ==
  /\ pc = "start"
  /\ responseText = << >>
  /\ cfg = NoCfg
  /\ gcfg = NoGoCfg
  /\ diff = {}
  /\ git4 = [q \in {"status", "branch", "log", "diff"} |-> "idle"]
  /\ br = NoBranches
  /\ saved = [i \in 1..3 |-> ""]
  /\ usedKey = ""
  /\ chan = << >>
  /\ recvd = 0
  /\ candidates = << >>
  /\ selected = << >>
  /\ commitAdd = FALSE
  /\ confirmed = FALSE
  /\ remoteCalls = 0
  /\ prompts = {}
  /\ stageOps = 0
  /\ commits = << >>
  /\ clip = << >>
  /\ exitCode = -1
  /\ report = NoReport

Init ==
  /\ variant \in Variants
  /\ FreshRun
  /\ index \in SUBSET {"s"}
  /\ work \in SUBSET {"u"}
  /\ CASE variant = "multi" ->
            /\ ollama = NoOllama
            /\ opts \in MultiFlags
            /\ env \in { e \in [AllEnvNames -> {"", "k_env"}] : e[AnthropicEnv] = "" }
            /\ rcFile \in RcFiles
            /\ goFile = NoGoFile
       [] variant = "delim" ->
            /\ ollama \in OllamaServers
            /\ opts \in DelimFlags
            /\ env \in { e \in [AllEnvNames -> {"", "k_env"}] :
                          \A n \in EnvNames : e[n] = "" }
            /\ rcFile \in DelimRcFiles
            /\ goFile = NoGoFile
       [] variant = "go" ->
            /\ ollama = NoOllama
            /\ opts \in GoFlags
            /\ env = [n \in AllEnvNames |-> ""]
            /\ rcFile = NoRc
            /\ goFile \in GoFiles

\* The process ends: exit code and the last thing it printed.
Exit(code, rep) ==
  /\ pc' = "done"
  /\ exitCode' = code
  /\ report' = rep

Running(v, at) == variant = v /\ pc = at

\* =========================================================================
\* The multi-provider program: index.ts, part_007 (cli-utils), part_008.
\* =========================================================================

\* A loadConfig that returns the parsed file as it is, without the defaults
\* under it.
loadConfigNoDefaults ==
  IF rcFile.exists /\ ~rcFile.bad
    THEN [provider |-> rcFile.provider, model |-> rcFile.model, apiKey |-> rcFile.apiKey]
    ELSE DefaultConfig

\* part_007 lines 38-55: defaults overridden by the fields of the file.
\* A missing, unreadable or unparseable file gives the defaults.
loadConfig ==
  IF rcFile.exists /\ ~rcFile.bad
    THEN [provider |-> IF rcFile.provider # "" THEN rcFile.provider
                                               ELSE DefaultConfig.provider,
          model |-> IF rcFile.model # "" THEN rcFile.model ELSE DefaultConfig.model,
          apiKey |-> rcFile.apiKey]
    ELSE DefaultConfig

\* part_007 lines 57-66: the file saveConfig(c) writes, JSON.stringify
\* leaving out the fields that are not set.
saveConfig(c) ==
  [exists |-> TRUE, bad |-> FALSE, provider |-> c.provider, model |-> c.model,
   apiKey |-> c.apiKey]

\* part_007 lines 297-314: does ensureApiKey(c) accept the configuration?
ensureApiKey(c) == env[EnvKeyMap(c.provider)] # "" \/ c.apiKey # ""

\* A quick mode that takes the provider and the model of ~/.commitrc when
\* there is one.
MultiQuickConfigFromFile ==
  /\ Running("multi", "start")
  /\ opts.quick
  /\ cfg' = IF rcFile.exists
              THEN loadConfig
              ELSE [provider |-> "groq", model |-> "llama-4-scout", apiKey |-> ""]
  /\ IF env["GROQ_API_KEY"] = ""
       THEN Exit(1, ErrNaming("GROQ_API_KEY environment variable is required for quick mode",
                              "GROQ_API_KEY"))
       ELSE /\ pc' = "validate"
            /\ UNCHANGED << exitCode, report >>
  /\ UNCHANGED << variant, ollama, responseText, opts, repoVars, env, rcFile, goCfgVars, diff, goGenVars,
                  genVars, selected, commitAdd, confirmed, remoteCalls, prompts, sideVars >>

\* index.ts lines 85-96: quick mode takes groq without reading any configuration.
MultiQuickConfig ==
  /\ Running("multi", "start")
  /\ opts.quick
  /\ cfg' = [provider |-> "groq", model |-> "llama-4-scout", apiKey |-> ""]
  /\ IF env["GROQ_API_KEY"] = ""
       THEN Exit(1, ErrNaming("GROQ_API_KEY environment variable is required for quick mode",
                              "GROQ_API_KEY"))
       ELSE /\ pc' = "validate"
            /\ UNCHANGED << exitCode, report >>
  /\ UNCHANGED << variant, ollama, responseText, opts, repoVars, env, rcFile, goCfgVars, diff, goGenVars,
                  genVars, selected, commitAdd, confirmed, remoteCalls, prompts, sideVars >>

\* The first-run setup with a saveConfig whose write error is swallowed: the
\* run goes on with the answers although no file was written.
MultiFirstRunNoSave ==
  /\ Running("multi", "start")
  /\ ~opts.quick
  /\ ~rcFile.exists
  /\ \E p \in Providers, writeOk \in BOOLEAN :
       \E m \in ModelChoices(p) :
         /\ prompts' = prompts \cup {"provider", "model"}
         /\ rcFile' = IF writeOk
                        THEN saveConfig([provider |-> p, model |-> m, apiKey |-> ""])
                        ELSE rcFile
         /\ cfg' = [provider |-> p, model |-> m, apiKey |-> ""]
         /\ pc' = "validate"
         /\ UNCHANGED << exitCode, report >>
  /\ UNCHANGED << variant, ollama, responseText, opts, repoVars, env, goCfgVars, diff, goGenVars,
                  genVars, selected, commitAdd, confirmed, remoteCalls, sideVars >>

\* index.ts lines 99-101 with firstRunSetup (part_007 lines 68-159) and
\* saveConfig (part_007 lines 57-66): no ensureApiKey on this path.
MultiFirstRun ==
  /\ Running("multi", "start")
  /\ ~opts.quick
  /\ ~rcFile.exists
  /\ \E p \in Providers, writeOk \in BOOLEAN :
       \E m \in ModelChoices(p) :
         /\ prompts' = prompts \cup {"provider", "model"}
         /\ IF writeOk
              THEN /\ rcFile' = saveConfig([provider |-> p, model |-> m, apiKey |-> ""])
                   /\ cfg' = [provider |-> p, model |-> m, apiKey |-> ""]
                   /\ pc' = "validate"
                   /\ UNCHANGED << exitCode, report >>
              ELSE /\ Exit(1, Err("Failed to save configuration"))
                   /\ UNCHANGED << rcFile, cfg >>
  /\ UNCHANGED << variant, ollama, responseText, opts, repoVars, env, goCfgVars, diff, goGenVars,
                  genVars, selected, commitAdd, confirmed, remoteCalls, sideVars >>

\* index.ts lines 102-107: existing configuration, then ensureApiKey.
MultiLoadExisting ==
  /\ Running("multi", "start")
  /\ ~opts.quick
  /\ rcFile.exists
  /\ cfg' = loadConfig
  /\ IF ensureApiKey(loadConfig)
       THEN /\ pc' = "validate"
            /\ UNCHANGED << exitCode, report >>
       ELSE Exit(1, ErrNaming("No API key found", EnvKeyMap(loadConfig.provider)))
  /\ UNCHANGED << variant, ollama, responseText, opts, repoVars, env, rcFile, goCfgVars, diff, goGenVars,
                  genVars, selected, commitAdd, confirmed, remoteCalls, prompts, sideVars >>

\* part_008 lines 293-297 with ensureGitRepo / ensureGitUser (lines 272-291).
MultiValidate ==
  /\ Running("multi", "validate")
  /\ \E r \in {"ok", "norepo", "nouser"} :
       CASE r = "ok" -> pc' = "diff" /\ UNCHANGED << exitCode, report >>
         [] r = "norepo" -> Exit(1, Err("Not a git repository"))
         [] r = "nouser" -> Exit(1, Err("Git user not configured"))
  /\ UNCHANGED << variant, ollama, responseText, opts, repoVars, env, tsCfgVars, goCfgVars, diff, goGenVars,
                  genVars, selected, commitAdd, confirmed, remoteCalls, prompts, sideVars >>

\* part_008 lines 77-112: the changes getGitDiff(staged, includeAll) reads.
getGitDiff(staged, includeAll) ==
  IF includeAll THEN index \cup work
  ELSE IF staged THEN index ELSE work

\* part_008 line 300 with getGitDiff: an empty diff is thrown as an error,
\* which index.ts lines 115-120 turn into exit code 1.
MultiGetDiff ==
  /\ Running("multi", "diff")
  /\ \E execOk \in BOOLEAN :
       LET d == getGitDiff(opts.staged, opts.quick) IN
         IF ~execOk THEN /\ Exit(1, Err("Failed to get git diff"))
                         /\ UNCHANGED diff
         ELSE IF d = {}
           THEN /\ Exit(1, IF ~opts.quick /\ opts.staged
                             THEN Err("No staged changes found")
                             ELSE Err("No changes found in the repository"))
                /\ UNCHANGED diff
           ELSE /\ diff' = d
                /\ pc' = "gen"
                /\ UNCHANGED << exitCode, report >>
  /\ UNCHANGED << variant, ollama, responseText, opts, repoVars, env, tsCfgVars, goCfgVars, goGenVars,
                  genVars, selected, commitAdd, confirmed, remoteCalls, prompts, sideVars >>

\* part_008 lines 40-41, 57-75, 172: the key generateWithAI resolves, "" when
\* getEnvApiKey throws.
ResolveKey(c, e) == IF c.apiKey # "" THEN c.apiKey ELSE e[EnvKeyMap(c.provider)]

\* part_008 lines 220-237: the three generateWithAI calls are started one
\* after the other; each runs to its first await (lines 170-193): it resolves
\* the key (throwing when there is none), captures the environment variable,
\* overwrites it and issues the request.
MultiGenStart ==
  /\ Running("multi", "gen")
  /\ LET k == EnvKeyMap(cfg.provider)
         key == ResolveKey(cfg, env)
     IN IF key = ""
          THEN /\ br' = [i \in 1..3 |-> [st |-> "rejected", val |-> << >>]]
               /\ UNCHANGED << env, saved, usedKey, remoteCalls >>
          ELSE /\ br' = [i \in 1..3 |-> [st |-> "pending", val |-> << >>]]
               /\ saved' = [i \in 1..3 |-> IF i = 1 THEN env[k] ELSE key]
               /\ usedKey' = key
               /\ env' = [env EXCEPT ![k] = key]
               /\ remoteCalls' = remoteCalls + 3
  /\ pc' = "join"
  /\ UNCHANGED << variant, ollama, responseText, opts, repoVars, tsCfgVars, goCfgVars, diff, goGenVars,
                  candidates, selected, commitAdd, confirmed, prompts, sideVars,
                  exitCode, report >>

\* The message field of a schema-conforming object the provider may return.
ObjMessages == { << >>, << "a" >>, << " ", "a", "\n", "a" >> }

\* part_008 lines 192-217: one request settles. A returned object restores
\* the environment variable and is passed through unless its message is
\* empty; a thrown request restores nothing.
MultiGenSettle(i) ==
  /\ Running("multi", "join")
  /\ br[i].st = "pending"
  /\ \/ /\ br' = [br EXCEPT ![i] = [st |-> "rejected", val |-> << >>]]
        /\ UNCHANGED env
     \/ \E m \in ObjMessages :
          /\ env' = [env EXCEPT ![EnvKeyMap(cfg.provider)] = saved[i]]
          /\ br' = [br EXCEPT ![i] =
                      IF m = << >> THEN [st |-> "rejected", val |-> << >>]
                                   ELSE [st |-> "fulfilled", val |-> m]]
  /\ UNCHANGED << variant, ollama, responseText, pc, opts, repoVars, tsCfgVars, goCfgVars, diff, goGenVars,
                  saved, usedKey, candidates, selected, commitAdd, confirmed, remoteCalls, prompts,
                  sideVars, exitCode, report >>

\* The values of the fulfilled branches, in branch order.
RECURSIVE Fulfilled(_, _)
Fulfilled(b, i) ==
  IF i > 3 THEN << >>
  ELSE IF b[i].st = "fulfilled"
         THEN << [message |-> b[i].val, analysis |-> "why"] >> \o Fulfilled(b, i + 1)
         ELSE Fulfilled(b, i + 1)

\* The join with an empty result let through as a quiet end.
MultiGenJoinQuiet ==
  /\ Running("multi", "join")
  /\ \A i \in 1..3 : br[i].st \in {"rejected", "fulfilled"}
  /\ LET cs == Fulfilled(br, 1) IN
       IF cs = << >>
         THEN /\ Exit(0, Info("No commit messages generated"))
              /\ UNCHANGED candidates
         ELSE /\ candidates' = cs
              /\ pc' = "select"
              /\ UNCHANGED << exitCode, report >>
  /\ UNCHANGED << variant, ollama, responseText, opts, repoVars, env, tsCfgVars, goCfgVars, diff, goGenVars,
                  br, saved, usedKey, selected, commitAdd, confirmed, remoteCalls, prompts, sideVars >>

\* part_008 lines 235-254: Promise.allSettled, then the fulfilled results;
\* none at all is an error.
MultiGenJoin ==
  /\ Running("multi", "join")
  /\ \A i \in 1..3 : br[i].st \in {"rejected", "fulfilled"}
  /\ LET cs == Fulfilled(br, 1) IN
       IF cs = << >>
         THEN /\ Exit(1, Err("Failed to generate any commit messages"))
              /\ UNCHANGED candidates
         ELSE /\ candidates' = cs
              /\ pc' = "select"
              /\ UNCHANGED << exitCode, report >>
  /\ UNCHANGED << variant, ollama, responseText, opts, repoVars, env, tsCfgVars, goCfgVars, diff, goGenVars,
                  br, saved, usedKey, selected, commitAdd, confirmed, remoteCalls, prompts, sideVars >>

\* What the user may type into the edit prompt: nothing (the default, the
\* chosen message, is kept) or a new text.
Edits == { << >>, << "e" >> }

\* part_008 lines 305-326 with promptForCommitMessage (part_007 lines
\* 161-199): the selection is guarded by the interactive flag and the number
\* of candidates only.
MultiSelect ==
  /\ Running("multi", "select")
  /\ IF opts.interactive /\ Len(candidates) > 1
       THEN \E n \in 1..Len(candidates), wantEdit \in BOOLEAN, e \in Edits :
              /\ prompts' = prompts \cup {"select", "edit?"}
                               \cup (IF wantEdit THEN {"edit"} ELSE {})
              /\ selected' = IF wantEdit /\ e # << >> THEN e ELSE candidates[n].message
       ELSE /\ selected' = candidates[1].message
            /\ UNCHANGED prompts
  /\ pc' = "confirm"
  /\ UNCHANGED << variant, ollama, responseText, opts, repoVars, env, tsCfgVars, goCfgVars, diff, goGenVars,
                  genVars, commitAdd, confirmed, remoteCalls, sideVars, exitCode, report >>

\* The confirmation whose answer is not looked at.
MultiConfirmIgnored ==
  /\ Running("multi", "confirm")
  /\ IF opts.quick
       THEN /\ commitAdd' = TRUE
            /\ UNCHANGED << prompts, confirmed >>
       ELSE \E yes \in BOOLEAN :
              /\ prompts' = prompts \cup {"confirm"}
              /\ confirmed' = yes
              /\ commitAdd' = opts.add
  /\ pc' = "commit"
  /\ UNCHANGED << variant, ollama, responseText, opts, repoVars, env, tsCfgVars, goCfgVars, diff, goGenVars,
                  genVars, selected, remoteCalls, sideVars, exitCode, report >>

\* part_008 lines 328-339 with confirmCommit (part_007 lines 201-221).
MultiConfirm ==
  /\ Running("multi", "confirm")
  /\ IF opts.quick
       THEN /\ commitAdd' = TRUE
            /\ pc' = "commit"
            /\ UNCHANGED << prompts, confirmed, exitCode, report >>
       ELSE \E yes \in BOOLEAN :
              /\ prompts' = prompts \cup {"confirm"}
              /\ confirmed' = yes
              /\ IF yes
                   THEN /\ commitAdd' = opts.add
                        /\ pc' = "commit"
                        /\ UNCHANGED << exitCode, report >>
                   ELSE /\ Exit(0, Info("Commit cancelled"))
                        /\ UNCHANGED commitAdd
  /\ UNCHANGED << variant, ollama, responseText, opts, repoVars, env, tsCfgVars, goCfgVars, diff, goGenVars,
                  genVars, selected, remoteCalls, sideVars >>

\* One "git commit" execution: it succeeds when git itself does, there is
\* something staged and the first message part is not empty (git aborts a
\* commit whose message is empty).
CommitRecord(parts, staged, gitOk) ==
  [parts |-> parts, staged |-> staged,
   ok |-> gitOk /\ staged # {} /\ parts[1] # << >>]

\* part_008 line 265, commit-generator.ts line 244: message.replace(/"/g, '\\"')
\* puts a backslash before every double quote and before nothing else.
RECURSIVE EscapeQuotes(_)
EscapeQuotes(s) ==
  IF s = << >> THEN << >>
  ELSE IF Head(s) = DQuote THEN << Backslash, DQuote >> \o EscapeQuotes(Tail(s))
  ELSE << Head(s) >> \o EscapeQuotes(Tail(s))

\* How /bin/sh reads the text behind `git commit -m `: inside double quotes
\* a backslash is dropped before a backslash or a double quote and kept
\* otherwise, a bare double quote closes the quotes; outside them a backslash
\* quotes the next character, a double quote opens again and a blank ends
\* the word. `arg` is the word git gets as the message, `more` tells that
\* further words follow it, `syntaxOk` that no quote is left open at the end
\* (the shell runs nothing otherwise).
RECURSIVE ShellWord(_, _, _, _)
ShellWord(s, inQuotes, inWord, acc) ==
  IF s = << >>
    THEN [syntaxOk |-> ~inQuotes, arg |-> acc, more |-> ~inWord]
  ELSE IF Head(s) = DQuote
    THEN ShellWord(Tail(s), ~inQuotes, inWord, acc)
  ELSE IF Head(s) = Backslash /\ Len(s) >= 2 /\ (~inQuotes \/ s[2] \in {Backslash, DQuote})
    THEN ShellWord(Tail(Tail(s)), inQuotes, inWord,
                   IF inWord THEN Append(acc, s[2]) ELSE acc)
  ELSE IF ~inQuotes /\ IsSpace(Head(s))
    THEN ShellWord(Tail(s), inQuotes, FALSE, acc)
  ELSE IF ~inQuotes /\ ~inWord
    THEN ShellWord(Tail(s), inQuotes, inWord, acc)
  ELSE ShellWord(Tail(s), inQuotes, inWord, Append(acc, Head(s)))

\* part_008 line 265, commit-generator.ts lines 244-249: the command line
\* `git commit -m "<escaped message>"` as the shell of execSync reads it.
shellCommit(message) ==
  ShellWord(EscapeQuotes(message) \o << DQuote >>, TRUE, TRUE, << >>)

\* The messages of the errors thrown in the commit step.
CommitFailed == "Failed to commit changes"

NoStagedHint == "No changes staged for commit. Use -a flag to auto-stage changes or git add to stage manually."

\* part_008 lines 257-270: optional "git add .", then "git commit -m".
MultiCommit ==
  /\ Running("multi", "commit")
  /\ \E addOk \in BOOLEAN, gitOk \in BOOLEAN :
       IF commitAdd /\ ~addOk
         THEN /\ Exit(1, ErrWrapping(CommitFailed, "Command failed: git add"))
              /\ UNCHANGED << repoVars, sideVars >>
         ELSE LET idx == IF commitAdd THEN index \cup work ELSE index
                  sh == shellCommit(selected)
                  rec == CommitRecord(<< sh.arg >>, idx, gitOk /\ ~sh.more)
              IN /\ stageOps' = IF commitAdd THEN stageOps + 1 ELSE stageOps
                 /\ work' = IF commitAdd THEN {} ELSE work
                 /\ UNCHANGED clip
                 /\ IF sh.syntaxOk
                      THEN /\ commits' = Append(commits, rec)
                           /\ index' = IF rec.ok THEN {} ELSE idx
                           /\ IF rec.ok
                                THEN Exit(0, Info("Changes committed successfully"))
                                ELSE Exit(1, ErrWrapping(CommitFailed, "Command failed: git commit"))
                      ELSE /\ index' = idx
                           /\ UNCHANGED commits
                           /\ Exit(1, ErrWrapping(CommitFailed, "Command failed: git commit"))
  /\ UNCHANGED << variant, ollama, responseText, opts, env, tsCfgVars, goCfgVars, diff, goGenVars,
                  genVars, selected, commitAdd, confirmed, remoteCalls, prompts >>

\* =========================================================================
\* The delimited-text program: part_004 (index), commit-generator.ts 1-322.
\* =========================================================================

\* part_006 lines 110-129: loadConfig of the delimited-text program.
DelimDefaultConfig == [provider |-> "ollama", model |-> "deepseek-r1:latest", apiKey |-> ""]

delimLoadConfig ==
  IF rcFile.exists /\ ~rcFile.bad
    THEN [provider |-> IF rcFile.provider # "" THEN rcFile.provider
                                               ELSE DelimDefaultConfig.provider,
          model |-> IF rcFile.model # "" THEN rcFile.model ELSE DelimDefaultConfig.model,
          apiKey |-> rcFile.apiKey]
    ELSE DelimDefaultConfig

\* part_006 lines 131-140: what saveConfig of the delimited-text program
\* leaves in the file when the write goes through.
delimSaveConfig(c) ==
  [exists |-> TRUE, bad |-> FALSE, provider |-> c.provider, model |-> c.model,
   apiKey |-> c.apiKey]

\* part_004 lines 96-105: the loaded configuration with the --cloud and
\* --model flags applied, for this invocation.
delimOverride(c, o) ==
  LET c1 == IF o.cloud THEN [c EXCEPT !.provider = "anthropic", !.model = "claude-3-sonnet-20240229"]
                       ELSE c
  IN IF o.model # "" THEN [c1 EXCEPT !.model = o.model] ELSE c1

\* commit-generator.ts lines 46-50: the key the Anthropic client is built
\* with; the ollama requests carry none.
delimClientKey(c, e) ==
  IF c.provider = "anthropic"
    THEN (IF e[AnthropicEnv] # "" THEN e[AnthropicEnv] ELSE c.apiKey)
    ELSE ""

\* A check that is content with a server that answers, whatever models it
\* lists.
checkModelAvailabilityAnyList(c) ==
  IF c.provider = "ollama"
    THEN ollama.tagsOk
    ELSE c.apiKey # "" \/ env[AnthropicEnv] # ""

\* part_006 lines 307-334: for ollama the model must be in the list the
\* server returns, and a list that cannot be had counts as "not there"; for
\* anthropic a key must be in the configuration or in the environment.
checkModelAvailability(c) ==
  IF c.provider = "ollama"
    THEN ollama.tagsOk /\ ollama.present
    ELSE c.apiKey # "" \/ env[AnthropicEnv] # ""

\* The start of a run that writes the configuration it runs with, overrides
\* included, back to the file.
DelimStartPersisting ==
  /\ Running("delim", "start")
  /\ LET c == delimOverride(delimLoadConfig, opts) IN
       /\ cfg' = c
       /\ rcFile' = delimSaveConfig(c)
       /\ IF checkModelAvailability(c)
            THEN /\ pc' = "diff"
                 /\ usedKey' = delimClientKey(c, env)
                 /\ UNCHANGED << ollama, exitCode, report >>
            ELSE IF c.provider = "ollama"
              THEN \E pullOk \in BOOLEAN :
                     /\ ollama' = [ollama EXCEPT !.pulls = @ + 1,
                                                 !.present = @ \/ pullOk]
                     /\ IF pullOk
                          THEN /\ pc' = "diff"
                               /\ usedKey' = delimClientKey(c, env)
                               /\ UNCHANGED << exitCode, report >>
                          ELSE Exit(1, Err("Failed to pull model")) /\ UNCHANGED usedKey
              ELSE /\ Exit(1, Err("No valid API key found for Anthropic"))
                   /\ UNCHANGED << ollama, usedKey >>
  /\ UNCHANGED << variant, responseText, opts, repoVars, env, goCfgVars, diff, goGenVars,
                  br, saved, candidates, selected, commitAdd, confirmed, remoteCalls,
                  prompts, sideVars >>

\* part_004 lines 86-111 with ensureModelAvailable (part_006 lines 336-367)
\* and the constructor (commit-generator.ts lines 38-51): a model that the
\* check does not find is pulled (ollama), and a failed pull or a missing
\* key (anthropic) ends the run.
DelimStart ==
  /\ Running("delim", "start")
  /\ LET c == delimOverride(delimLoadConfig, opts) IN
       /\ cfg' = c
       /\ IF checkModelAvailability(c)
            THEN /\ pc' = "diff"
                 /\ usedKey' = delimClientKey(c, env)
                 /\ UNCHANGED << ollama, exitCode, report >>
            ELSE IF c.provider = "ollama"
              THEN \E pullOk \in BOOLEAN :
                     /\ ollama' = [ollama EXCEPT !.pulls = @ + 1,
                                                 !.present = @ \/ pullOk]
                     /\ IF pullOk
                          THEN /\ pc' = "diff"
                               /\ usedKey' = delimClientKey(c, env)
                               /\ UNCHANGED << exitCode, report >>
                          ELSE Exit(1, Err("Failed to pull model")) /\ UNCHANGED usedKey
              ELSE /\ Exit(1, Err("No valid API key found for Anthropic"))
                   /\ UNCHANGED << ollama, usedKey >>
  /\ UNCHANGED << variant, responseText, opts, repoVars, env, rcFile, goCfgVars, diff, goGenVars,
                  br, saved, candidates, selected, commitAdd, confirmed, remoteCalls,
                  prompts, sideVars >>

\* commit-generator.ts lines 53-60: "git diff --staged" or "git diff".
delimGitDiff(staged) == IF staged THEN index ELSE work

\* commit-generator.ts lines 277-291: repository check, diff, and the clean
\* return when the diff is empty.
DelimGetDiff ==
  /\ Running("delim", "diff")
  /\ \E r \in {"ok", "norepo", "difffail"} :
       LET d == delimGitDiff(IF opts.add THEN FALSE ELSE opts.staged) IN
         CASE r = "norepo" -> Exit(1, Err("Not a git repository")) /\ UNCHANGED diff
           [] r = "difffail" -> Exit(1, Err("Failed to get git diff")) /\ UNCHANGED diff
           [] r = "ok" ->
                IF d = {}
                  THEN Exit(0, Info("No changes to commit")) /\ UNCHANGED diff
                  ELSE /\ diff' = d
                       /\ pc' = "gen"
                       /\ UNCHANGED << exitCode, report >>
  /\ UNCHANGED << variant, ollama, responseText, opts, repoVars, env, tsCfgVars, goCfgVars, goGenVars,
                  genVars, selected, commitAdd, confirmed, remoteCalls, prompts, sideVars >>

\* The span between the first `open` at or after `from` and the first
\* `close` after it, then on from behind that close: the matches of
\* /<open>(.*?)<\/open>/gs.
RECURSIVE MatchAll(_, _, _, _)
MatchAll(s, open, close, from) ==
  LET o == IndexFrom(s, open, from) IN
    IF o = 0 THEN << >>
    ELSE LET c == IndexFrom(s, close, o + 1) IN
           IF c = 0 THEN << >>
           ELSE << SubSeq(s, o + 1, c - 1) >> \o MatchAll(s, open, close, c + 1)

\* The analysis taken from the last analysis block of the answer.
ParseAnalysisLast(resp) ==
  LET ms == MatchAll(resp, "<a>", "</a>", 1) IN
    IF ms = << >> THEN << >> ELSE TrimSpace(ms[Len(ms)])

\* commit-generator.ts lines 191-195: the first analysis block, trimmed.
ParseAnalysis(resp) ==
  LET ms == MatchAll(resp, "<a>", "</a>", 1) IN
    IF ms = << >> THEN << >> ELSE TrimSpace(ms[1])

\* commit-generator.ts lines 197-205: every message block, trimmed, each
\* with the one analysis.
ParseMessages(resp) ==
  LET ms == MatchAll(resp, "<m>", "</m>", 1) IN
    [k \in 1..Len(ms) |-> [message |-> TrimSpace(ms[k]), analysis |-> ParseAnalysis(resp)]]

\* Free-text answers of the provider: no tags, an unclosed tag, one message
\* with analysis, two messages (the first spanning two lines), an empty
\* one, and messages that quote a word, name a path with two backslashes or
\* end in a backslash and a quote, and one with a message before the first
\* of two analysis blocks and the same message again behind them.
DelimResponses ==
  { << "a" >>,
    << "<m>", "a" >>,
    << "<a>", "a", "</a>", "<m>", "a", "</m>" >>,
    << "<m>", " ", "a", "\n", "a", " ", "</m>", "<m>", "a", "</m>" >>,
    << "<m>", "</m>" >>,
    << "<m>", DQuote, "a", DQuote, "</m>" >>,
    << "<m>", "a", Backslash, Backslash, "a", "</m>" >>,
    << "<m>", "a", Backslash, DQuote, "</m>" >>,
    << "<m>", "a", "</m>", "<a>", " ", "a", "</a>", "<a>", "e", "</a>", "<m>", "a", "</m>" >> }

\* commit-generator.ts lines 176-216 (generateMessages) with the two
\* provider calls (lines 81-135): one request; a failed request, an empty
\* answer and an answer without a message block all throw.
DelimGenerate ==
  /\ Running("delim", "gen")
  /\ remoteCalls' = remoteCalls + 1
  /\ \/ /\ Exit(1, Err("Failed to generate"))
        /\ UNCHANGED << candidates, responseText >>
     \/ \E resp \in DelimResponses :
          LET ms == ParseMessages(resp) IN
            /\ responseText' = resp
            /\ IF ms = << >>
                 THEN /\ Exit(1, Err("No commit messages found in response"))
                      /\ UNCHANGED candidates
                 ELSE /\ candidates' = ms
                      /\ pc' = "select"
                      /\ UNCHANGED << exitCode, report >>
  /\ UNCHANGED << variant, ollama, opts, repoVars, env, tsCfgVars, goCfgVars, diff, goGenVars,
                  br, saved, usedKey, selected, commitAdd, confirmed, prompts, sideVars >>

\* commit-generator.ts lines 303-314: interactive mode selects (and may
\* edit); otherwise the first message goes straight to commitChanges.
DelimSelect ==
  /\ Running("delim", "select")
  /\ IF opts.interactive
       THEN \E n \in 1..Len(candidates), wantEdit \in BOOLEAN, e \in Edits :
              /\ prompts' = prompts \cup {"select", "edit?"}
                               \cup (IF wantEdit THEN {"edit"} ELSE {})
              /\ selected' = IF wantEdit /\ e # << >> THEN e ELSE candidates[n].message
              /\ pc' = "confirm"
       ELSE /\ selected' = candidates[1].message
            /\ pc' = "commit"
            /\ UNCHANGED prompts
  /\ commitAdd' = opts.add
  /\ UNCHANGED << variant, ollama, responseText, opts, repoVars, env, tsCfgVars, goCfgVars, diff, goGenVars,
                  genVars, confirmed, remoteCalls, sideVars, exitCode, report >>

\* The confirmation with the branches of the answer swapped.
DelimConfirmSwapped ==
  /\ Running("delim", "confirm")
  /\ \E yes \in BOOLEAN :
       /\ prompts' = prompts \cup {"confirm"}
       /\ confirmed' = yes
       /\ IF ~yes THEN pc' = "commit" /\ UNCHANGED << exitCode, report >>
                  ELSE Exit(0, Info("Commit cancelled"))
  /\ UNCHANGED << variant, ollama, responseText, opts, repoVars, env, tsCfgVars, goCfgVars, diff, goGenVars,
                  genVars, selected, commitAdd, remoteCalls, sideVars >>

\* commit-generator.ts lines 305-311 with confirmCommit.
DelimConfirm ==
  /\ Running("delim", "confirm")
  /\ \E yes \in BOOLEAN :
       /\ prompts' = prompts \cup {"confirm"}
       /\ confirmed' = yes
       /\ IF yes THEN pc' = "commit" /\ UNCHANGED << exitCode, report >>
                 ELSE Exit(0, Info("Commit cancelled"))
  /\ UNCHANGED << variant, ollama, responseText, opts, repoVars, env, tsCfgVars, goCfgVars, diff, goGenVars,
                  genVars, selected, commitAdd, remoteCalls, sideVars >>

\* commit-generator.ts lines 218-274: optional "git add -A", the check that
\* something is staged, then "git commit -m".
DelimCommit ==
  /\ Running("delim", "commit")
  /\ \E addOk \in BOOLEAN, gitOk \in BOOLEAN :
       LET idx == IF commitAdd THEN index \cup work ELSE index IN
         IF commitAdd /\ ~addOk
           THEN /\ Exit(1, ErrWrapping(CommitFailed, "Command failed: git add"))
                /\ UNCHANGED << repoVars, sideVars >>
         ELSE IF idx = {}
           THEN /\ Exit(1, ErrWrapping(CommitFailed, NoStagedHint))
                /\ stageOps' = IF commitAdd THEN stageOps + 1 ELSE stageOps
                /\ index' = idx
                /\ work' = IF commitAdd THEN {} ELSE work
                /\ UNCHANGED << commits, clip >>
           ELSE LET sh == shellCommit(selected)
                    rec == CommitRecord(<< sh.arg >>, idx, gitOk /\ ~sh.more) IN
                  /\ stageOps' = IF commitAdd THEN stageOps + 1 ELSE stageOps
                  /\ work' = IF commitAdd THEN {} ELSE work
                  /\ UNCHANGED clip
                  /\ IF sh.syntaxOk
                       THEN /\ commits' = Append(commits, rec)
                            /\ index' = IF rec.ok THEN {} ELSE idx
                            /\ IF rec.ok
                                 THEN Exit(0, Info("Changes committed successfully"))
                                 ELSE Exit(1, ErrWrapping(CommitFailed, "Command failed: git commit"))
                       ELSE /\ index' = idx
                            /\ UNCHANGED commits
                            /\ Exit(1, ErrWrapping(CommitFailed, "Command failed: git commit"))
  /\ UNCHANGED << variant, ollama, responseText, opts, env, tsCfgVars, goCfgVars, diff, goGenVars,
                  genVars, selected, commitAdd, confirmed, remoteCalls, prompts >>

DelimNext ==
  \/ DelimStart
  \/ DelimGetDiff
  \/ DelimGenerate
  \/ DelimSelect
  \/ DelimConfirm
  \/ DelimCommit

\* =========================================================================
\* The Go program: main.go lines 140-543.
\* =========================================================================

\* main.go lines 195-203: the zero Config when the file cannot be read or
\* is not JSON (the error of json.Unmarshal is dropped).
goLoadConfig ==
  IF goFile.exists /\ ~goFile.bad
    THEN [style |-> goFile.style, action |-> goFile.action, clip |-> goFile.clip]
    ELSE NoGoCfg

\* main.go lines 205-210: the file after saveConfig(c); a failed write is
\* ignored and leaves the file as it was.
goSaveConfig(c, writeOk) ==
  IF writeOk
    THEN [exists |-> TRUE, bad |-> FALSE, style |-> c.style, action |-> c.action,
          clip |-> c.clip]
    ELSE goFile

\* What the configuration steps leave alone. The prompts variable records
\* the selection, edit and confirmation prompts of the pipeline and the
\* questions of the TS setup wizard, not the Go configuration questions.
GoIdle ==
  UNCHANGED << variant, ollama, responseText, opts, repoVars, env, tsCfgVars, diff, goGenVars, genVars,
               selected, commitAdd, confirmed, remoteCalls, prompts, sideVars >>

\* main.go lines 405-414: --style.
GoSetStyle ==
  /\ Running("go", "start")
  /\ opts.setStyle
  /\ \E st \in Styles, writeOk \in BOOLEAN :
       LET c == [goLoadConfig EXCEPT !.style = st] IN
         /\ gcfg' = c
         /\ goFile' = goSaveConfig(c, writeOk)
  /\ Exit(0, Info("Style saved"))
  /\ GoIdle

\* An --action that does not ask for the clipboard format.
GoSetActionNoFormat ==
  /\ Running("go", "start")
  /\ ~opts.setStyle /\ opts.setAction
  /\ \E a \in Actions, writeOk \in BOOLEAN :
       LET c == [goLoadConfig EXCEPT !.action = a]
       IN /\ gcfg' = c
          /\ goFile' = goSaveConfig(c, writeOk)
  /\ Exit(0, Info("Action saved"))
  /\ GoIdle

\* main.go lines 416-425: --action.
GoSetAction ==
  /\ Running("go", "start")
  /\ ~opts.setStyle /\ opts.setAction
  /\ \E a \in Actions, cf \in ClipFormats, writeOk \in BOOLEAN :
       LET c == IF a = ActionClipboard
                  THEN [goLoadConfig EXCEPT !.action = a, !.clip = cf]
                  ELSE [goLoadConfig EXCEPT !.action = a]
       IN /\ gcfg' = c
          /\ goFile' = goSaveConfig(c, writeOk)
  /\ Exit(0, Info("Action saved"))
  /\ GoIdle

\* main.go lines 427-433: --clipformat.
GoSetClipFormat ==
  /\ Running("go", "start")
  /\ ~opts.setStyle /\ ~opts.setAction /\ opts.setClip
  /\ \E cf \in ClipFormats, writeOk \in BOOLEAN :
       LET c == [goLoadConfig EXCEPT !.clip = cf] IN
         /\ gcfg' = c
         /\ goFile' = goSaveConfig(c, writeOk)
  /\ Exit(0, Info("Clipboard format saved"))
  /\ GoIdle

\* main.go lines 405, 435-449: load, and the first-run questions for the
\* fields that are still empty.
GoSetup ==
  /\ Running("go", "start")
  /\ ~opts.setStyle /\ ~opts.setAction /\ ~opts.setClip
  /\ LET c0 == goLoadConfig IN
       IF c0.style = "" \/ c0.action = ""
         THEN \E st \in Styles, a \in Actions, cf \in ClipFormats, writeOk \in BOOLEAN :
                LET c1 == IF c0.style = "" THEN [c0 EXCEPT !.style = st] ELSE c0
                    c2 == IF c0.action = "" THEN [c1 EXCEPT !.action = a] ELSE c1
                    c3 == IF c0.action = "" /\ a = ActionClipboard /\ c0.clip = ""
                            THEN [c2 EXCEPT !.clip = cf] ELSE c2
                IN /\ gcfg' = c3
                   /\ goFile' = goSaveConfig(c3, writeOk)
         ELSE /\ gcfg' = c0
              /\ UNCHANGED goFile
  /\ pc' = "autoadd"
  /\ UNCHANGED << exitCode, report >>
  /\ GoIdle

\* main.go lines 451-458: -a stages everything and turns on the staged scope.
GoAutoStage ==
  /\ Running("go", "autoadd")
  /\ IF opts.add
       THEN \E addOk \in BOOLEAN :
              IF addOk
                THEN /\ index' = index \cup work
                     /\ work' = {}
                     /\ stageOps' = stageOps + 1
                     /\ opts' = [opts EXCEPT !.staged = TRUE]
                     /\ pc' = "check"
                     /\ UNCHANGED << exitCode, report >>
                ELSE /\ Exit(1, Err("git add failed"))
                     /\ UNCHANGED << repoVars, stageOps, opts >>
       ELSE /\ pc' = "check"
            /\ UNCHANGED << repoVars, stageOps, opts, exitCode, report >>
  /\ UNCHANGED << variant, ollama, responseText, env, tsCfgVars, goCfgVars, diff, goGenVars, genVars,
                  selected, commitAdd, confirmed, remoteCalls, prompts, commits, clip >>

\* The changes a Go query of the scope sees: "--staged" or "HEAD".
goScope(staged) == IF staged THEN index ELSE index \cup work

\* main.go lines 460-474: the quiet pre-check. Any non-zero exit of git, not
\* only that of a real difference, counts as "there are changes".
GoPreCheck ==
  /\ Running("go", "check")
  /\ \E nonZero \in BOOLEAN :
       IF goScope(opts.staged) = {} /\ ~nonZero
         THEN Exit(0, Info(IF opts.staged THEN "No staged changes detected"
                                          ELSE "No changes detected"))
         ELSE pc' = "collect" /\ UNCHANGED << exitCode, report >>
  /\ UNCHANGED << variant, ollama, responseText, opts, repoVars, env, tsCfgVars, goCfgVars, diff, goGenVars,
                  genVars, selected, commitAdd, confirmed, remoteCalls, prompts, sideVars >>

GitQueries == {"status", "branch", "log", "diff"}

\* main.go lines 286-319: one of the four goroutines of collectGitData ends.
GoRunGit(q) ==
  /\ Running("go", "collect")
  /\ git4[q] = "idle"
  /\ \E r \in {"ok", "err"} : git4' = [git4 EXCEPT ![q] = r]
  /\ UNCHANGED << variant, ollama, responseText, pc, opts, repoVars, env, tsCfgVars, goCfgVars, diff, chan,
                  recvd, genVars, selected, commitAdd, confirmed, remoteCalls, prompts,
                  sideVars, exitCode, report >>

\* The join that gives up on the first failed query instead of waiting.
GoCollectJoinFailFast ==
  /\ Running("go", "collect")
  /\ \/ \E q \in GitQueries : git4[q] = "err"
     \/ \A q \in GitQueries : git4[q] # "idle"
  /\ IF \E q \in GitQueries : git4[q] = "err"
       THEN /\ Exit(1, Err("git query failed"))
            /\ UNCHANGED diff
       ELSE IF goScope(opts.staged) = {}
         THEN /\ Exit(0, Info("No diff found"))
              /\ UNCHANGED diff
         ELSE /\ diff' = goScope(opts.staged)
              /\ pc' = "gen"
              /\ UNCHANGED << exitCode, report >>
  /\ UNCHANGED << variant, ollama, responseText, opts, repoVars, env, tsCfgVars, goCfgVars, goGenVars,
                  genVars, selected, commitAdd, confirmed, remoteCalls, prompts, sideVars >>

\* main.go lines 321-337 and 476-481: wg.Wait, the four error checks, and
\* the clean return on an empty diff.
GoCollectJoin ==
  /\ Running("go", "collect")
  /\ \A q \in GitQueries : git4[q] # "idle"
  /\ IF \E q \in GitQueries : git4[q] = "err"
       THEN /\ Exit(1, Err("git query failed"))
            /\ UNCHANGED diff
       ELSE IF goScope(opts.staged) = {}
         THEN /\ Exit(0, Info("No diff found"))
              /\ UNCHANGED diff
         ELSE /\ diff' = goScope(opts.staged)
              /\ pc' = "gen"
              /\ UNCHANGED << exitCode, report >>
  /\ UNCHANGED << variant, ollama, responseText, opts, repoVars, env, tsCfgVars, goCfgVars, goGenVars,
                  genVars, selected, commitAdd, confirmed, remoteCalls, prompts, sideVars >>

\* generateMessage without the trimming.
generateMessageRaw(text) == text

\* main.go lines 352-364: generateMessage trims the text of the answer.
generateMessage(text) == TrimSpace(text)

\* main.go lines 519-527: one request, fatal when it fails.
GoGenerateOne ==
  /\ Running("go", "gen")
  /\ ~opts.interactive
  /\ remoteCalls' = remoteCalls + 1
  /\ \/ /\ Exit(1, Err("Generation failed"))
        /\ UNCHANGED << candidates, selected >>
     \/ \E text \in RawTexts :
          /\ candidates' = << [message |-> generateMessage(text), analysis |-> << >>] >>
          /\ selected' = generateMessage(text)
          /\ pc' = "act"
          /\ UNCHANGED << exitCode, report >>
  /\ UNCHANGED << variant, ollama, responseText, opts, repoVars, env, tsCfgVars, goCfgVars, diff, goGenVars,
                  br, saved, usedKey, commitAdd, confirmed, prompts, sideVars >>

\* main.go lines 491-504: three goroutines are started, each issuing one request.
GoFanOut ==
  /\ Running("go", "gen")
  /\ opts.interactive
  /\ br' = [i \in 1..3 |-> [st |-> "pending", val |-> << >>]]
  /\ remoteCalls' = remoteCalls + 3
  /\ pc' = "collecting"
  /\ UNCHANGED << variant, ollama, responseText, opts, repoVars, env, tsCfgVars, goCfgVars, diff, goGenVars,
                  saved, usedKey, candidates, selected, commitAdd, confirmed, prompts, sideVars,
                  exitCode, report >>

\* Raw answers in the fan-out: blank, one line, two lines.
FanOutTexts == { << " " >>, << "a" >>, << "a", "\n", "a" >> }

\* A goroutine that returns without sending when its request failed.
GoRoutineSendOnSuccess(i) ==
  /\ Running("go", "collecting")
  /\ br[i].st = "pending"
  /\ \/ /\ br' = [br EXCEPT ![i] = [st |-> "rejected", val |-> << >>]]
        /\ UNCHANGED chan
     \/ \E text \in FanOutTexts :
          /\ chan' = Append(chan, [msg |-> generateMessage(text), err |-> FALSE])
          /\ br' = [br EXCEPT ![i] = [st |-> "fulfilled", val |-> generateMessage(text)]]
  /\ UNCHANGED << variant, ollama, responseText, pc, opts, repoVars, env, tsCfgVars, goCfgVars, diff, git4,
                  recvd, saved, usedKey, candidates, selected, commitAdd, confirmed, remoteCalls,
                  prompts, sideVars, exitCode, report >>

\* main.go lines 500-503: a goroutine's request ends and its result is sent
\* on the channel (capacity 3, so the send never blocks).
GoRoutineSend(i) ==
  /\ Running("go", "collecting")
  /\ br[i].st = "pending"
  /\ \/ /\ chan' = Append(chan, [msg |-> << >>, err |-> TRUE])
        /\ br' = [br EXCEPT ![i] = [st |-> "rejected", val |-> << >>]]
     \/ \E text \in FanOutTexts :
          /\ chan' = Append(chan, [msg |-> generateMessage(text), err |-> FALSE])
          /\ br' = [br EXCEPT ![i] = [st |-> "fulfilled", val |-> generateMessage(text)]]
  /\ UNCHANGED << variant, ollama, responseText, pc, opts, repoVars, env, tsCfgVars, goCfgVars, diff, git4,
                  recvd, saved, usedKey, candidates, selected, commitAdd, confirmed, remoteCalls,
                  prompts, sideVars, exitCode, report >>

\* The collector with the test of the message left out: every result without
\* an error is kept.
GoCollectorRecvKeepBlank ==
  /\ Running("go", "collecting")
  /\ recvd < 3
  /\ chan # << >>
  /\ LET r == Head(chan) IN
       candidates' = IF ~r.err
                       THEN Append(candidates, [message |-> r.msg, analysis |-> << >>])
                       ELSE candidates
  /\ chan' = Tail(chan)
  /\ recvd' = recvd + 1
  /\ UNCHANGED << variant, ollama, responseText, pc, opts, repoVars, env, tsCfgVars, goCfgVars, diff, git4,
                  br, saved, usedKey, selected, commitAdd, confirmed, remoteCalls, prompts, sideVars,
                  exitCode, report >>

\* main.go lines 506-512: the collector takes one result off the channel and
\* keeps it when it has no error and a non-empty message.
GoCollectorRecv ==
  /\ Running("go", "collecting")
  /\ recvd < 3
  /\ chan # << >>
  /\ LET r == Head(chan) IN
       candidates' = IF ~r.err /\ r.msg # << >>
                       THEN Append(candidates, [message |-> r.msg, analysis |-> << >>])
                       ELSE candidates
  /\ chan' = Tail(chan)
  /\ recvd' = recvd + 1
  /\ UNCHANGED << variant, ollama, responseText, pc, opts, repoVars, env, tsCfgVars, goCfgVars, diff, git4,
                  br, saved, usedKey, selected, commitAdd, confirmed, remoteCalls, prompts, sideVars,
                  exitCode, report >>

\* main.go lines 514-518 with pickInteractive (lines 377-394).
GoPick ==
  /\ Running("go", "collecting")
  /\ recvd = 3
  /\ IF candidates = << >>
       THEN /\ Exit(1, Err("Failed to generate any commit messages"))
            /\ UNCHANGED << selected, prompts >>
       ELSE \E n \in 1..Len(candidates) :
              /\ selected' = candidates[n].message
              /\ prompts' = prompts \cup {"select"}
              /\ pc' = "act"
              /\ UNCHANGED << exitCode, report >>
  /\ UNCHANGED << variant, ollama, responseText, opts, repoVars, env, tsCfgVars, goCfgVars, diff, goGenVars,
                  genVars, commitAdd, confirmed, remoteCalls, sideVars >>

\* gitCommit without the branch on the style.
gitCommitOnePart(msg, style) == << msg >>

\* main.go lines 269-279: the message parts gitCommit hands to "git commit".
gitCommit(msg, style) ==
  IF style = StyleDetailed
    THEN LET lines == SplitN2(msg) IN
           IF Len(lines) = 2
             THEN << TrimSpace(lines[1]), TrimSpace(lines[2]) >>
             ELSE << TrimSpace(lines[1]) >>
    ELSE << msg >>

\* fmt's %q: the text between double quotes, a newline written as \n.
RECURSIVE Escape(_)
Escape(s) ==
  IF s = << >> THEN << >>
  ELSE (IF Head(s) = "\n" THEN << "\\", "n" >> ELSE << Head(s) >>) \o Escape(Tail(s))

Quote(s) == << "\"" >> \o Escape(s) \o << "\"" >>

\* A clipboard text that never carries the description.
formatForClipboardTitleOnly(msg, format) ==
  IF format = ClipFormatCommand
    THEN << "git commit -m " >> \o Quote(TrimSpace(SplitN2(msg)[1]))
    ELSE msg

\* main.go lines 366-375.
formatForClipboard(msg, format) ==
  IF format = ClipFormatCommand
    THEN LET lines == SplitN2(msg) IN
           IF Len(lines) = 2 /\ TrimSpace(lines[2]) # << >>
             THEN << "git commit -m " >> \o Quote(TrimSpace(lines[1]))
                    \o << " -m " >> \o Quote(TrimSpace(lines[2]))
             ELSE << "git commit -m " >> \o Quote(TrimSpace(lines[1]))
    ELSE msg

\* An action step that tries the commit again when git refuses it.
GoActRetrying ==
  /\ Running("go", "act")
  /\ IF gcfg.action = ActionCommit
       THEN \E addOk \in BOOLEAN, gitOk \in BOOLEAN :
              IF ~addOk
                THEN /\ Exit(1, Err("git add failed"))
                     /\ UNCHANGED << repoVars, sideVars >>
                ELSE LET rec == CommitRecord(gitCommit(selected, gcfg.style),
                                             index \cup work, gitOk)
                     IN /\ stageOps' = stageOps + 1
                        /\ commits' = Append(commits, rec)
                        /\ index' = IF rec.ok THEN {} ELSE index \cup work
                        /\ work' = {}
                        /\ UNCHANGED clip
                        /\ IF rec.ok THEN Exit(0, Info("committed"))
                                     ELSE /\ pc' = "act"
                                          /\ UNCHANGED << exitCode, report >>
       ELSE \E clipOk \in BOOLEAN :
              IF clipOk
                THEN /\ clip' = Append(clip, formatForClipboard(selected, gcfg.clip))
                     /\ Exit(0, Info("Commit message copied to clipboard"))
                     /\ UNCHANGED << repoVars, stageOps, commits >>
                ELSE /\ Exit(1, Err("Failed to copy to clipboard"))
                     /\ UNCHANGED << repoVars, sideVars >>
  /\ UNCHANGED << variant, ollama, responseText, opts, env, tsCfgVars, goCfgVars, diff, goGenVars, genVars,
                  selected, commitAdd, confirmed, remoteCalls, prompts >>

\* main.go lines 529-542: "git add ." and the commit, or the clipboard.
GoAct ==
  /\ Running("go", "act")
  /\ IF gcfg.action = ActionCommit
       THEN \E addOk \in BOOLEAN, gitOk \in BOOLEAN :
              IF ~addOk
                THEN /\ Exit(1, Err("git add failed"))
                     /\ UNCHANGED << repoVars, sideVars >>
                ELSE LET rec == CommitRecord(gitCommit(selected, gcfg.style),
                                             index \cup work, gitOk)
                     IN /\ stageOps' = stageOps + 1
                        /\ commits' = Append(commits, rec)
                        /\ index' = IF rec.ok THEN {} ELSE index \cup work
                        /\ work' = {}
                        /\ UNCHANGED clip
                        /\ IF rec.ok THEN Exit(0, Info("committed"))
                                     ELSE Exit(1, Err("git commit failed"))
       ELSE \E clipOk \in BOOLEAN :
              IF clipOk
                THEN /\ clip' = Append(clip, formatForClipboard(selected, gcfg.clip))
                     /\ Exit(0, Info("Commit message copied to clipboard"))
                     /\ UNCHANGED << repoVars, stageOps, commits >>
                ELSE /\ Exit(1, Err("Failed to copy to clipboard"))
                     /\ UNCHANGED << repoVars, sideVars >>
  /\ UNCHANGED << variant, ollama, responseText, opts, env, tsCfgVars, goCfgVars, diff, goGenVars, genVars,
                  selected, commitAdd, confirmed, remoteCalls, prompts >>

GoNext ==
  \/ GoSetStyle
  \/ GoSetAction
  \/ GoSetClipFormat
  \/ GoSetup
  \/ GoAutoStage
  \/ GoPreCheck
  \/ \E q \in GitQueries : GoRunGit(q)
  \/ GoCollectJoin
  \/ GoGenerateOne
  \/ GoFanOut
  \/ \E i \in 1..3 : GoRoutineSend(i)
  \/ GoCollectorRecv
  \/ GoPick
  \/ GoAct

MultiNext ==
  \/ MultiQuickConfig
  \/ MultiFirstRun
  \/ MultiLoadExisting
  \/ MultiValidate
  \/ MultiGetDiff
  \/ MultiGenStart
  \/ \E i \in 1..3 : MultiGenSettle(i)
  \/ MultiGenJoin
  \/ MultiSelect
  \/ MultiConfirm
  \/ MultiCommit

Next == MultiNext \/ DelimNext \/ GoNext

Spec == Init /\ [][Next]_vars

\* main.go lines 497-512: the Go scheduler runs every goroutine that can take
\* a step, a request comes back with an answer or an error, and the collector
\* loop takes what is on the channel.
GoFanOutFairness ==
  /\ \A i \in 1..3 : WF_vars(GoRoutineSend(i))
  /\ WF_vars(GoCollectorRecv)

SpecFair == Init /\ [][Next]_vars /\ GoFanOutFairness

\* =========================================================================
\* The Go program run again and again on one config.json: configuration
\* commands and runs in any order, starting without a file. A run is
\* followed up to the end of the first-run setup; what comes after it
\* neither reads nor writes the configuration.
\* =========================================================================

\* main.go lines 397-403: the flags that matter before the setup is over.
GoConfigFlags ==
  { [NoFlags EXCEPT !.setStyle = x, !.setAction = y, !.setClip = z] :
      x \in BOOLEAN, y \in BOOLEAN, z \in BOOLEAN }

GoConfigInit ==
  /\ variant = "go"
  /\ FreshRun
  /\ ollama = NoOllama
  /\ index = {} /\ work = {"u"}
  /\ opts \in GoConfigFlags
  /\ env = [n \in AllEnvNames |-> ""]
  /\ rcFile = NoRc
  /\ goFile = NoGoFile

\* main.go lines 396-405: the program is started again, with any of the
\* flags, once the invocation before it has ended or is past its setup.
GoInvoke ==
  /\ variant = "go"
  /\ pc \in {"done", "autoadd"}
  /\ pc' = "start"
  /\ opts' \in GoConfigFlags
  /\ gcfg' = NoGoCfg
  /\ exitCode' = -1
  /\ report' = NoReport
  /\ UNCHANGED << variant, ollama, responseText, repoVars, env, tsCfgVars, goFile, diff,
                  goGenVars, genVars, selected, commitAdd, confirmed, remoteCalls,
                  prompts, sideVars >>

GoConfigNext ==
  \/ GoSetStyle
  \/ GoSetAction
  \/ GoSetClipFormat
  \/ GoSetup
  \/ GoInvoke

SpecGoConfig == GoConfigInit /\ [][GoConfigNext]_vars

\* =========================================================================
\* The configuration modules on their own: loadConfig and saveConfig called
\* in any order on any file the user's disk may hold.
\* =========================================================================

\* Any ~/.commitrc: none, or a file that is unreadable or not JSON (bad), or
\* a JSON object with any of the fields.
AnyRcFiles(types) ==
  { NoRc } \cup
  [exists : {TRUE}, bad : BOOLEAN, provider : types \cup {""},
   model : {"", "m_file"}, apiKey : {"", "k_cfg"}]

\* Any config.json of the Go program.
AnyGoFiles ==
  { NoGoFile } \cup
  [exists : {TRUE}, bad : BOOLEAN, style : Styles \cup {""},
   action : Actions \cup {""}, clip : ClipFormats \cup {""}]

\* part_007 lines 24-28, part_006 lines 102-108: the Config values a caller
\* may hand to saveConfig; the key is optional.
ConfigValues(types) ==
  [provider : types, model : {"m_new"}, apiKey : {"", "k_new"}]

\* main.go lines 184-188: the Config values of the Go program.
GoConfigValues == [style : Styles, action : Actions, clip : ClipFormats \cup {""}]

DelimTypes == {"ollama", "anthropic"}

ConfigInit ==
  /\ variant \in Variants
  /\ FreshRun
  /\ ollama = NoOllama
  /\ index = {} /\ work = {}
  /\ opts = NoFlags
  /\ env = [n \in AllEnvNames |-> ""]
  /\ CASE variant = "multi" -> rcFile \in AnyRcFiles(Providers) /\ goFile = NoGoFile
       [] variant = "delim" -> rcFile \in AnyRcFiles(DelimTypes) /\ goFile = NoGoFile
       [] variant = "go" -> rcFile = NoRc /\ goFile \in AnyGoFiles

ConfigIdle ==
  UNCHANGED << variant, ollama, responseText, opts, repoVars, env, diff, goGenVars, genVars, selected,
               commitAdd, confirmed, remoteCalls, prompts, sideVars, exitCode >>

\* part_007 lines 57-66 and part_006 lines 131-140: saveConfig writes the
\* file and prints the success line, or prints the failure and rethrows.
\* cfg keeps the value the caller handed over.
SaveConfigCall(v, types) ==
  /\ variant = v
  /\ \E c \in ConfigValues(types), writeOk \in BOOLEAN :
       /\ cfg' = c
       /\ IF writeOk
            THEN /\ rcFile' = IF v = "multi" THEN saveConfig(c) ELSE delimSaveConfig(c)
                 /\ pc' = "saved"
                 /\ report' = Info("Configuration saved successfully")
            ELSE /\ pc' = "threw"
                 /\ report' = Err("Failed to save configuration")
                 /\ UNCHANGED rcFile
  /\ UNCHANGED goCfgVars
  /\ ConfigIdle

\* part_007 lines 38-55 and part_006 lines 110-129: loadConfig returns; a
\* file that cannot be read or parsed is warned about.
LoadConfigCall(v) ==
  /\ variant = v
  /\ cfg' = IF v = "multi" THEN loadConfig ELSE delimLoadConfig
  /\ pc' = "loaded"
  /\ report' = IF rcFile.exists /\ rcFile.bad
                 THEN Info("Failed to load config, using defaults")
                 ELSE NoReport
  /\ UNCHANGED << rcFile, goCfgVars >>
  /\ ConfigIdle

\* main.go lines 205-210: saveConfig returns nothing, whatever became of the
\* write. gcfg keeps the value the caller handed over.
GoSaveConfigCall ==
  /\ variant = "go"
  /\ \E c \in GoConfigValues, writeOk \in BOOLEAN :
       /\ gcfg' = c
       /\ goFile' = goSaveConfig(c, writeOk)
  /\ pc' = "saved"
  /\ report' = NoReport
  /\ UNCHANGED tsCfgVars
  /\ ConfigIdle

\* main.go lines 195-203: loadConfig returns.
GoLoadConfigCall ==
  /\ variant = "go"
  /\ gcfg' = goLoadConfig
  /\ pc' = "loaded"
  /\ report' = NoReport
  /\ UNCHANGED << goFile, tsCfgVars >>
  /\ ConfigIdle

ConfigNext ==
  \/ SaveConfigCall("multi", Providers)
  \/ SaveConfigCall("delim", DelimTypes)
  \/ LoadConfigCall("multi")
  \/ LoadConfigCall("delim")
  \/ GoSaveConfigCall
  \/ GoLoadConfigCall

SpecConfig == ConfigInit /\ [][ConfigNext]_vars

\* =========================================================================
\* Properties
\* =========================================================================

\* The prompts of the interaction: selection, edit and confirmation.
InteractionPrompts == {"select", "edit?", "edit", "confirm"}

\* What the programs print when the selected scope holds no change.
NoChangesReports ==
  { "No staged changes found", "No changes found in the repository",
    "No changes to commit", "No staged changes detected", "No changes detected",
    "No diff found" }

\* C1: an invocation that found no pending changes in its scope has made no
\* remote generation call and ends with exit code zero after an
\* informational "no changes" outcome, in every mode.
C1_NoChangesExitsClean ==
  (pc = "done" /\ report.text \in NoChangesReports)
    => (remoteCalls = 0 /\ exitCode = 0 /\ report.stream = "info")

C3_MissingCredentialNamed ==
  (variant = "multi" /\ pc = "done" /\ diff # {} /\ ResolveKey(cfg, env) = "")
    => (exitCode # 0 /\ remoteCalls = 0 /\ report.names = EnvKeyMap(cfg.provider))

\* A branch of the fan-out succeeded: it ended without error on a message
\* that is not empty.
Succeeded(i) == br[i].st = "fulfilled" /\ br[i].val # << >>

\* The controller of a fan-out has left the join.
Joined ==
  variant \in {"multi", "go"} /\ br[1].st # "idle" /\ pc \notin {"join", "collecting"}

\* C4: the controller of the three-way fan-out leaves the join only when all
\* three branches have settled, and when at least one branch succeeded it
\* goes on with exactly the successful candidates and without the fatal
\* generation error.
C4_PartialSuccessProceeds ==
  Joined =>
    /\ \A i \in 1..3 : br[i].st \in {"fulfilled", "rejected"}
    /\ (\E i \in 1..3 : Succeeded(i)) =>
         /\ Len(candidates) = Cardinality({ i \in 1..3 : Succeeded(i) })
         /\ \A i \in 1..3 : Succeeded(i) =>
              \E k \in 1..Len(candidates) : candidates[k].message = br[i].val
         /\ \A k \in 1..Len(candidates) :
              \E i \in 1..3 : Succeeded(i) /\ br[i].val = candidates[k].message
         /\ report.text # "Failed to generate any commit messages"

\* Two of the three branches failed, the third succeeded, and the run ended well.
C4_TwoOfThreeFailed ==
  /\ Joined
  /\ Cardinality({ i \in 1..3 : br[i].st = "rejected" }) = 2
  /\ \E i \in 1..3 : Succeeded(i)
  /\ Len(candidates) = 1
  /\ pc = "done" /\ exitCode = 0

\* Generation is over: a request was made or the fan-out was started, and
\* the controller has moved on.
GenerationOver ==
  pc \notin {"gen", "join", "collecting"} /\ (remoteCalls > 0 \/ br[1].st # "idle")

\* C5: when generation is over with zero candidates the invocation has
\* failed: it is terminated with a non-zero exit code on an error, and it
\* has presented, confirmed, committed and copied nothing.
C5_ZeroCandidatesFail ==
  (GenerationOver /\ candidates = << >>) =>
    /\ pc = "done" /\ exitCode # 0 /\ report.stream = "error"
    /\ prompts \cap InteractionPrompts = {}
    /\ selected = << >>
    /\ commits = << >> /\ clip = << >>

\* All three requests of a fan-out were sent and none gave a candidate.
C5_AllBranchesFailed ==
  /\ Joined
  /\ remoteCalls = 3
  /\ \A i \in 1..3 : ~Succeeded(i)
  /\ candidates = << >>
  /\ exitCode = 1

\* C6: the four repository queries of the Go program end in any order; the
\* Inspector is left only when all four have ended; when one of them failed
\* the run is over with a fatal error; and a remote generation call is only
\* ever made with four successful results.
C6_AllFourOrNothing ==
  variant = "go" =>
    /\ ((\E q \in GitQueries : git4[q] # "idle") /\ pc # "collect")
         => \A q \in GitQueries : git4[q] # "idle"
    /\ ((\E q \in GitQueries : git4[q] = "err") /\ pc # "collect")
         => (pc = "done" /\ exitCode = 1 /\ report.stream = "error" /\ remoteCalls = 0)
    /\ remoteCalls > 0 => \A q \in GitQueries : git4[q] = "ok"

\* The log query failed while the diff query succeeded, and the run is over.
C6_OneQueryFailed ==
  /\ variant = "go" /\ pc = "done"
  /\ git4["log"] = "err" /\ git4["diff"] = "ok" /\ git4["status"] = "ok"
  /\ exitCode = 1

\* C7 as stated: outside quick mode a commit is executed only after an
\* affirmative confirmation.
C7_ConfirmBeforeCommitEverywhere ==
  (commits # << >> /\ ~opts.quick) => confirmed

\* The modes that ask before they commit: the multi-provider program
\* outside quick mode, the delimited-text program in interactive mode.
ConfirmingMode ==
  \/ variant = "multi" /\ ~opts.quick
  \/ variant = "delim" /\ opts.interactive

\* C7 as amended: in the confirming modes a commit is attempted only after
\* the confirmation prompt was answered affirmatively.
C7_ConfirmBeforeCommit ==
  (ConfirmingMode /\ (commits # << >> \/ pc = "commit" \/ stageOps > 0))
    => (confirmed /\ "confirm" \in prompts)

\* A confirmed commit of the multi-provider program that went through.
C7_ConfirmedCommit ==
  /\ variant = "multi" /\ ~opts.quick
  /\ confirmed
  /\ commits # << >> /\ commits[1].ok

\* The confirmation prompt was answered negatively.
Declined == "confirm" \in prompts /\ ~confirmed

\* C8: after a negative confirmation the invocation is over (cancelled): it
\* has staged nothing and committed nothing, its last output is
\* informational and its exit code is zero.
C8_DeclineCancels ==
  Declined =>
    /\ pc = "done" /\ exitCode = 0 /\ report.stream = "info"
    /\ stageOps = 0 /\ commits = << >>

\* A declined run that was asked to stage and had something to stage.
C8_DeclinedWithWork ==
  Declined /\ pc = "done" /\ opts.add /\ work # {}

\* No whitespace at either end.
Trimmed(m) == m = << >> \/ (~IsSpace(m[1]) /\ ~IsSpace(m[Len(m)]))

C10_DetailedAlwaysTwoParts ==
  (variant = "go" /\ commits # << >>) =>
    Len(commits[1].parts) = (IF gcfg.style = StyleDetailed THEN 2 ELSE 1)

\* C10 as amended: a commit of the Go program has two message parts when the
\* style is detailed and the message spans more than one line, and one part
\* otherwise; with the detailed style the first part is a trimmed single line.
C10_TwoPartsWhenSplit ==
  (variant = "go" /\ commits # << >>) =>
    /\ Len(commits[1].parts) =
         (IF gcfg.style = StyleDetailed /\ HasNewline(selected) THEN 2 ELSE 1)
    /\ gcfg.style = StyleDetailed =>
         (~HasNewline(commits[1].parts[1]) /\ Trimmed(commits[1].parts[1]))
    /\ gcfg.style # StyleDetailed => commits[1].parts = << selected >>

\* A detailed commit with a title and a description that went through.
C10_DetailedTwoParts ==
  /\ variant = "go" /\ gcfg.style = StyleDetailed
  /\ commits # << >> /\ commits[1].ok
  /\ Len(commits[1].parts) = 2
  /\ commits[1].parts[2] # << >>

\* ------------------------------------------------------------------------
\* Configuration persistence in the generation runs.

GoSavedReports == {"Style saved", "Action saved", "Clipboard format saved"}

\* C19: a save that did not reach the file is never reported as a successful
\* save. For the Go program: whenever a configuration command has announced
\* that the setting is saved, loading the file gives the configuration that
\* was handed to saveConfig.
C19_SavedReportMeansSaved ==
  (variant = "go" /\ pc = "done" /\ report.text \in GoSavedReports) =>
    goLoadConfig = gcfg

\* C16 as stated: in the multi-provider program no generation request is made,
\* whatever the flags, unless the configuration file exists.
C16_NoGenerationWithoutConfig ==
  (variant = "multi" /\ remoteCalls > 0) => rcFile.exists

\* C16 as amended: in the multi-provider program without the quick flag, a
\* generation request is made only when the configuration file exists and
\* holds the provider and the model the run generates with; on a first run
\* these are the answers the setup asked for.
C16_SetupBeforeGeneration ==
  (variant = "multi" /\ ~opts.quick /\ remoteCalls > 0) =>
    /\ rcFile.exists
    /\ rcFile.provider = cfg.provider /\ rcFile.provider \in Providers
    /\ rcFile.model = cfg.model /\ rcFile.model \in ModelChoices(rcFile.provider)

\* A first run whose setup asked for provider and model, and that went on to
\* request candidates.
C16_FirstRunGenerated ==
  /\ variant = "multi" /\ ~opts.quick
  /\ {"provider", "model"} \subseteq prompts
  /\ remoteCalls > 0

\* ------------------------------------------------------------------------
\* Credentials.

\* The run generates with a provider that takes a key, and its configuration
\* stores one.
StoredKeyInUse ==
  /\ variant \in {"multi", "delim"}
  /\ remoteCalls > 0
  /\ cfg.apiKey # ""
  /\ variant = "delim" => cfg.provider = "anthropic"

\* C17: the key stored in the configuration goes before the environment
\* variable of the provider: a run whose configuration stores a key makes its
\* generation requests with that key, whatever the environment holds.
C17_ConfigKeyBeforeEnv ==
  StoredKeyInUse => usedKey = cfg.apiKey

\* ------------------------------------------------------------------------
\* The configuration file during a generation run.

\* A generation run that found a configuration: the TypeScript programs with
\* a ~/.commitrc, the Go program with a complete config.json and none of the
\* configuration flags.
ExistingConfigRun ==
  \/ variant \in {"multi", "delim"} /\ rcFile.exists
  \/ /\ variant = "go"
     /\ ~opts.setStyle /\ ~opts.setAction /\ ~opts.setClip
     /\ goLoadConfig.style # "" /\ goLoadConfig.action # ""

\* C20: no step of a generation run that found a configuration changes the
\* configuration file, with the override flags and in quick mode as well; the
\* --cloud and --model overrides are in the configuration of the run only.
C20_GenerationLeavesConfigFile ==
  [][ExistingConfigRun =>
       /\ rcFile' = rcFile /\ goFile' = goFile
       /\ (variant = "delim" /\ pc = "start") =>
            /\ opts.model # "" => cfg'.model = opts.model
            /\ opts.cloud => cfg'.provider = "anthropic"
            /\ (~opts.cloud /\ opts.model = "") => cfg' = delimLoadConfig
       /\ (variant = "multi" /\ pc = "start" /\ opts.quick) =>
            cfg'.provider = "groq"]_vars

\* A run with --model that committed: it ran with the model of the flag and
\* the file still names another one.
C20_OverrideNotPersisted ==
  /\ variant = "delim" /\ rcFile.exists
  /\ opts.model # "" /\ cfg.model = opts.model /\ rcFile.model # opts.model
  /\ commits # << >>

\* ------------------------------------------------------------------------
\* The commit step of the TypeScript programs.

\* C12: with the staged-only flag and a single-line selected message, the
\* commit that is executed carries exactly that message, and a commit that
\* went through ends the run with exit code 0.
C12_StagedCommitExactMessage ==
  ( /\ variant \in {"multi", "delim"}
    /\ opts.staged /\ pc = "done" /\ commits # << >>
    /\ ~HasNewline(selected) ) =>
      /\ commits[1].parts = << selected >>
      /\ commits[1].ok => exitCode = 0

\* The run came to the commit step without auto-staging and with nothing in
\* the index: either "git commit" ran on the empty index or the step stopped
\* before it.
NoStagedAtCommit ==
  /\ variant \in {"multi", "delim"}
  /\ pc = "done" /\ confirmed /\ ~commitAdd
  /\ index = {}
  /\ commits = << >> \/ commits[Len(commits)].staged = {}

\* C13: a commit attempted with nothing staged fails with the error of that
\* kind, not with the generic commit failure: without the auto-stage flag the
\* report is the text that points to the -a flag, wrapped in nothing.
C13_NoStagedErrorReported ==
  NoStagedAtCommit =>
    /\ exitCode = 1
    /\ report.stream = "error" /\ report.text = NoStagedHint /\ report.cause = ""

\* C14: "git commit" is never run on an empty index.
C14_CommitOnlyWithStaged ==
  \A i \in 1..Len(commits) : commits[i].staged # {}

\* C15: an error of the commit step that already has its kind is not wrapped
\* again as the generic commit failure.
C15_ClassifiedNotRewrapped ==
  (pc = "done" /\ report.text = CommitFailed) => report.cause # NoStagedHint

\* ------------------------------------------------------------------------
\* saveConfig and loadConfig (checked under SpecConfig).

\* C11: after saveConfig has returned, loadConfig gives the value that was
\* saved: every field that was set is as saved, and a field that was not set
\* (the optional key) has its default.
C11_SaveThenLoad ==
  pc = "saved" =>
    CASE variant = "multi" ->
           /\ loadConfig.provider = cfg.provider /\ loadConfig.model = cfg.model
           /\ loadConfig.apiKey = (IF cfg.apiKey # "" THEN cfg.apiKey ELSE DefaultConfig.apiKey)
      [] variant = "delim" ->
           /\ delimLoadConfig.provider = cfg.provider /\ delimLoadConfig.model = cfg.model
           /\ delimLoadConfig.apiKey =
                (IF cfg.apiKey # "" THEN cfg.apiKey ELSE DelimDefaultConfig.apiKey)
      [] variant = "go" -> goLoadConfig = gcfg

\* The value loadConfig is to return for the file: the defaults when there is
\* no file or it cannot be read or parsed, and otherwise for each field the
\* persisted value when the file has one and the default when it has none.
Merged(file, defaults, fields) ==
  [f \in fields |->
     IF file.exists /\ ~file.bad /\ file[f] # "" THEN file[f] ELSE defaults[f]]

\* C18: loadConfig always returns, without an error and without ending the
\* process, and what it returns is the defaults overridden by exactly the
\* fields a parseable file holds.
C18_LoadNeverFails ==
  pc = "loaded" =>
    /\ exitCode = -1 /\ report.stream # "error"
    /\ CASE variant = "multi" ->
              cfg = Merged(rcFile, DefaultConfig, {"provider", "model", "apiKey"})
         [] variant = "delim" ->
              cfg = Merged(rcFile, DelimDefaultConfig, {"provider", "model", "apiKey"})
         [] variant = "go" ->
              gcfg = Merged(goFile, NoGoCfg, {"style", "action", "clip"})

\* A load of a file that holds a model and no provider: the provider is the
\* default one.
C18_PartialFileLoaded ==
  /\ variant = "multi" /\ pc = "loaded"
  /\ rcFile.exists /\ ~rcFile.bad
  /\ rcFile.provider = "" /\ rcFile.model # ""
  /\ cfg.provider = DefaultConfig.provider /\ cfg.model = rcFile.model

\* ------------------------------------------------------------------------
\* Quick mode.

\* C21: in every step of a quick run of the multi-provider program, whatever
\* ~/.commitrc holds, the configuration of the run is groq with its fixed
\* model, the file is left alone, the setup questions are not asked, and a
\* commit is made on an index that holds every change, the unstaged ones
\* staged by the commit step itself.
C21_QuickModeFrame ==
  [][(variant = "multi" /\ opts.quick) =>
       /\ rcFile' = rcFile
       /\ pc' # "start" =>
            cfg' = [provider |-> "groq", model |-> "llama-4-scout", apiKey |-> ""]
       /\ {"provider", "model"} \cap prompts' = {}
       /\ commits' # commits =>
            /\ commitAdd
            /\ commits'[Len(commits')].staged = index \cup work
            /\ work' = {}
            /\ stageOps' = stageOps + 1]_vars

\* A quick run without -a, beside a ~/.commitrc that names google, that
\* committed a change which was unstaged when it started.
C21_QuickCommittedUnstaged ==
  /\ variant = "multi" /\ opts.quick /\ ~opts.add
  /\ rcFile.exists /\ rcFile.provider = "google"
  /\ cfg.provider = "groq"
  /\ commits # << >> /\ commits[1].ok /\ "u" \in commits[1].staged

\* ------------------------------------------------------------------------
\* The order of the side effects.

\* C22: in every step of a run, at most one commit is issued; the step that
\* issues it ends the run, and once it is issued nothing is staged, requested
\* or copied any more; the generation requests of a run are issued in one
\* step, so that none follows a failed one.
C22_CommitOnceAndLast ==
  [][/\ Len(commits') <= 1
     /\ commits' # commits => pc' = "done"
     /\ commits # << >> =>
          /\ commits' = commits /\ stageOps' = stageOps
          /\ remoteCalls' = remoteCalls /\ clip' = clip
          /\ index' = index /\ work' = work
     /\ remoteCalls' # remoteCalls => remoteCalls = 0]_vars

\* A commit that git refused after three suggestions were requested: the run
\* is over with exit code 1 and that one commit attempt.
C22_FailedCommitEndsRun ==
  /\ variant = "go" /\ pc = "done" /\ exitCode = 1
  /\ remoteCalls = 3
  /\ Len(commits) = 1 /\ ~commits[1].ok /\ commits[1].staged # {}

\* ------------------------------------------------------------------------
\* The list of candidates in the multi-suggestion modes.

\* The non-empty messages of the fulfilled generation calls, in the order in
\* which the calls were issued.
RECURSIVE IssueOrder(_, _)
IssueOrder(b, i) ==
  IF i > 3 THEN << >>
  ELSE IF b[i].st = "fulfilled" /\ b[i].val # << >>
         THEN << b[i].val >> \o IssueOrder(b, i + 1)
         ELSE IssueOrder(b, i + 1)

\* All three calls are over and their results have been gathered.
Gathered ==
  /\ \A i \in 1..3 : br[i].st \in {"rejected", "fulfilled"}
  /\ \/ variant = "multi" /\ candidates # << >>
     \/ variant = "go" /\ recvd = 3

\* C23: the candidates handed to the selection are the results of the calls
\* in the order in which the calls were issued, whatever the order in which
\* they completed, and equal messages are all kept.
C23_CandidatesInIssueOrder ==
  Gathered => [k \in 1..Len(candidates) |-> candidates[k].message] = IssueOrder(br, 1)

\* ------------------------------------------------------------------------
\* The local inference provider.

\* The step in which a run configured for ollama makes sure of its model.
OllamaStart == variant = "delim" /\ pc = "start" /\ cfg'.provider = "ollama"

PullFailed == "Failed to pull model"

\* C24 as stated: the pull is requested exactly when the model is not on the
\* server.
C24_PullIffAbsent ==
  [][OllamaStart =>
       ((ollama'.pulls = ollama.pulls + 1) <=> ~ollama.present)]_vars

\* C24 as amended: the pull is requested exactly when the availability check
\* does not find the model, that is when the list of the server lacks it or
\* cannot be had; the run goes on when the model was found or the pull went
\* through, ends with the pull error and exit code 1 when the pull failed,
\* and makes no generation request after that.
C24_PullIffNotFound ==
  [][/\ OllamaStart =>
          /\ (ollama'.pulls = ollama.pulls + 1) <=> ~(ollama.tagsOk /\ ollama.present)
          /\ ollama'.pulls \in {ollama.pulls, ollama.pulls + 1}
          /\ (ollama.tagsOk /\ ollama.present) => pc' = "diff"
          /\ pc' # "diff" =>
               /\ pc' = "done" /\ exitCode' = 1 /\ report' = Err(PullFailed)
               /\ ollama'.pulls = ollama.pulls + 1
     /\ report.text = PullFailed => remoteCalls' = 0 /\ pc' = "done"]_vars

\* A run that pulled the model it did not find and then asked it for a
\* message.
C24_PulledThenGenerated ==
  /\ variant = "delim" /\ cfg.provider = "ollama"
  /\ ollama.pulls = 1 /\ ollama.present
  /\ remoteCalls = 1

\* ------------------------------------------------------------------------
\* The clipboard.

\* The message has a second part that is not blank.
HasDescription(msg) ==
  Len(SplitN2(msg)) = 2 /\ TrimSpace(SplitN2(msg)[2]) # << >>

\* C25: with the clip format "command" the copied text is `git commit -m`
\* with the quoted title, which a shell reads back as the title, followed by
\* ` -m ` and the quoted description exactly when the message has a second
\* part that is not blank; with any other clip format the copied text is the
\* message as it is.
C25_ClipboardContent ==
  (variant = "go" /\ clip # << >>) =>
    LET title == TrimSpace(SplitN2(selected)[1])
        descr == TrimSpace(SplitN2(selected)[2])
        first == << "git commit -m " >> \o Quote(title)
    IN /\ Len(clip) = 1
       /\ gcfg.clip # ClipFormatCommand => clip[1] = selected
       /\ gcfg.clip = ClipFormatCommand =>
            /\ ShellWord(Tail(Quote(title)), TRUE, TRUE, << >>) =
                 [syntaxOk |-> TRUE, arg |-> title, more |-> FALSE]
            /\ HasDescription(selected) =>
                 clip[1] = first \o << " -m " >> \o Quote(descr)
            /\ ~HasDescription(selected) => clip[1] = first

\* A two-line message copied as a command with both parts.
C25_CommandWithDescription ==
  /\ variant = "go" /\ gcfg.clip = ClipFormatCommand
  /\ HasDescription(selected)
  /\ clip # << >> /\ \E k \in 1..Len(clip[1]) : clip[1][k] = " -m "

\* ------------------------------------------------------------------------
\* The analysis of the delimited-text answers.

\* The trimmed text of the first closed analysis block of the answer, empty
\* when the answer has none.
FirstAnalysis(resp) ==
  LET o == IndexOf(resp, "<a>")
      c == IF o = 0 THEN 0 ELSE IndexFrom(resp, "</a>", o + 1)
  IN IF c = 0 THEN << >> ELSE TrimSpace(SubSeq(resp, o + 1, c - 1))

\* C26: all candidates parsed from one answer carry the same analysis: the
\* text of the analysis block the match finds (the first one), and the empty
\* text when the answer has no analysis block.
C26_SharedAnalysis ==
  (variant = "delim" /\ candidates # << >>) =>
    \A k \in 1..Len(candidates) : candidates[k].analysis = FirstAnalysis(responseText)

\* Two candidates from an answer with analysis blocks, both carrying the
\* analysis of the first block.
C26_TwoCandidatesOneAnalysis ==
  /\ variant = "delim" /\ Len(candidates) = 2
  /\ candidates[1].analysis = << "a" >> /\ candidates[2].analysis = << "a" >>
  /\ IndexOf(responseText, "<a>") > IndexOf(responseText, "<m>")

\* ------------------------------------------------------------------------
\* The environment variable of the provider.

\* C27: once the three generateWithAI calls of a run have settled, in any
\* order and with any outcome, the environment variable of the provider holds
\* what it held before the first call overwrote it (saved[1], empty when the
\* variable was not set).
C27_EnvRestoredAfterGeneration ==
  ( /\ variant = "multi" /\ remoteCalls = 3
    /\ \A i \in 1..3 : br[i].st \in {"rejected", "fulfilled"} ) =>
      env[EnvKeyMap(cfg.provider)] = saved[1]

\* ------------------------------------------------------------------------
\* What is described and what is committed.

\* C28: the changes in a commit that went through are the changes of the diff
\* the message was generated from.
C28_CommitMatchesDiff ==
  \A i \in 1..Len(commits) : commits[i].ok => commits[i].staged = diff

\* ------------------------------------------------------------------------
\* The fan-out of the Go program (checked under SpecFair).

Settled == {i \in 1..3 : br[i].st \in {"rejected", "fulfilled"}}

\* Every goroutine that is over has sent one result, no more results are on
\* the channel than it holds, and the collector has taken no more than three.
FanOutCounts ==
  variant = "go" =>
    /\ Len(chan) + recvd = Cardinality(Settled)
    /\ Len(chan) <= 3 /\ recvd <= 3

\* The collector leaves its loop after three results only, and then either
\* the selection starts on a non-empty list of non-empty messages or the run
\* ends fatally.
FanOutLeave ==
  (variant = "go" /\ pc = "collecting" /\ pc' # "collecting") =>
    /\ recvd = 3 /\ chan = << >> /\ Settled = 1..3
    /\ \/ /\ candidates # << >>
          /\ \A k \in 1..Len(candidates) : candidates[k].message # << >>
          /\ pc' = "act" /\ selected' # << >>
       \/ /\ candidates = << >>
          /\ pc' = "done" /\ exitCode' = 1

\* C29: in every interleaving of the three goroutines and the collector each
\* goroutine sends exactly one result, no send finds the channel full, the
\* collector gets to its third result, and it then goes on to the selection
\* with a non-empty list of non-empty messages or ends the run fatally.
C29_FanOutCompletes ==
  /\ []FanOutCounts
  /\ [][FanOutLeave]_vars
  /\ (variant = "go" /\ pc = "collecting") ~> (recvd = 3 /\ chan = << >> /\ Settled = 1..3)

\* The collector has its three results, one of them an error, and the
\* selection has been made from the others.
C29_ThreeReceivedOneFailed ==
  /\ variant = "go" /\ pc = "act"
  /\ recvd = 3 /\ chan = << >>
  /\ br[2].st = "rejected" /\ br[1].st = "fulfilled" /\ br[3].st = "fulfilled"
  /\ candidates # << >>

\* ------------------------------------------------------------------------
\* The configuration of the Go program over many invocations (checked under
\* SpecGoConfig).

\* C30: whatever configuration commands and runs came before, a run that is
\* past its setup and on its way to generation has a style and an action,
\* and a clipboard format when the action is the clipboard; the same holds of
\* the file whenever it names an action.
C30_GoConfigComplete ==
  /\ pc = "autoadd" =>
       /\ gcfg.style # "" /\ gcfg.action # ""
       /\ gcfg.action = ActionClipboard => gcfg.clip # ""
  /\ goFile.action = ActionClipboard => goFile.clip # ""

\* A run that found the file complete, with the clipboard as action and the
\* command format, and asked nothing.
C30_LoadedClipboardConfig ==
  /\ pc = "autoadd"
  /\ goFile.exists /\ gcfg = goLoadConfig
  /\ gcfg.action = ActionClipboard /\ gcfg.clip = ClipFormatCommand
  /\ report = NoReport

=============================================================================
